---- MODULE Spec2Model ----
(***************************************************************************)
(* Model of src/components/ui/Globe.tsx: the hex colour decoder hexToRgb,  *)
(* the point dataset builder _buildData, the random index selection        *)
(* genRandomNumbers, and the Globe component's render/effect cycle with    *)
(* its ring-tick interval timer.                                           *)
(*                                                                         *)
(* Strings that the code inspects character by character (colours) are     *)
(* sequences of one-character strings.  A JavaScript value that may be     *)
(* null is a sequence of length at most one: <<>> is null, <<v>> is v.     *)
(***************************************************************************)
EXTENDS Integers, Sequences, FiniteSets, TLC

VARIABLES
    hexIn,          \* argument of a direct hexToRgb call
    hexOut,         \* <<>> before the call, <<result>> after it
    phase,          \* "new" | "mounted" | "unmounted" | "call" (direct function call)
    data,           \* props.data of the last render
    globeConfig,    \* props.globeConfig of the last render
    globeRefCurrent,\* globeRef.current is attached
    globeData,      \* useState value seen by the last render (nullable)
    pendingGD,      \* queued setGlobeData value (nullable)
    depRef,         \* globeRef.current as read by the last render (dependency value)
    depGov,         \* the four governing defaultProps values of the last render
    material,       \* globeMaterial fields
    arcsLayer,      \* three-globe arcsData
    pointsLayer,    \* three-globe pointsData
    ringsLayer,     \* three-globe ringsData
    timers,         \* live setInterval timers with the closure each captured
    cleanup3,       \* interval id held by the ring effect's cleanup, 0 when none
    created,        \* number of setInterval calls so far (next handle - 1)
    pc,             \* "idle" | "gen" | "filter": position inside a ring tick
    tickId,         \* id of the timer whose callback is running, 0 when none
    genMin, genMax, genCount, \* arguments of the running genRandomNumbers call
    arr,            \* genRandomNumbers' local arr
    numbersOfRings, \* the ring effect's numbersOfRings
    emitted,        \* _buildData's local points of its last run (before filtering)
    builds,         \* _buildData runs since the last change of its inputs
    updates         \* caller-driven replacements of props so far

vars == <<hexIn, hexOut, phase, data, globeConfig, globeRefCurrent, globeData,
          pendingGD, depRef, depGov, material, arcsLayer, pointsLayer, ringsLayer,
          timers, cleanup3, created, pc, tickId, genMin, genMax, genCount, arr,
          numbersOfRings, emitted, builds, updates>>

(***************************************************************************)
(* Bounds.                                                                 *)
(***************************************************************************)
MaxLen == 7        \* longest colour string handed to a direct hexToRgb call
MaxArcs == 2       \* longest arc list
MaxN == 9          \* largest arcCount of a direct genRandomNumbers call
MaxFairN == 8      \* largest arcCount of a genRandomNumbers call under fair draws
MaxUpdates == 2    \* caller-driven prop replacements after mount

Null == <<>>
Some(v) == <<v>>
Range(s) == {s[i] : i \in 1..Len(s)}
MinOf(a, b) == IF a < b THEN a ELSE b

(***************************************************************************)
(* hexToRgb (Globe.tsx 65-80).                                             *)
(***************************************************************************)
Alphabet == {"#", "1", "a", "F", "g"}

\* The character class [a-f\d] under the i flag.
HexClass(c) ==
    c \in {"0", "1", "2", "3", "4", "5", "6", "7", "8", "9",
           "a", "b", "c", "d", "e", "f", "A", "B", "C", "D", "E", "F"}

\* ^#? : the rest of the string after an optional leading '#'.
AfterHash(s) == IF Len(s) > 0 /\ s[1] = "#" THEN Tail(s) ELSE s

\* /^#?([a-f\d])([a-f\d])([a-f\d])$/i : the three groups, or null.
ShorthandExec(s) ==
    LET b == AfterHash(s)
    IN IF Len(b) = 3 /\ \A i \in 1..3 : HexClass(b[i]) THEN Some(b) ELSE Null

\* A replacer that repeats the three digits instead of doubling each.
CleanedHexRepeat(s) ==
    LET m == ShorthandExec(s)
    IN IF m = Null THEN s
       ELSE <<m[1][1], m[1][2], m[1][3], m[1][1], m[1][2], m[1][3]>>

\* String(hex).replace(shorthandRegex, (m, r, g, b) => r + r + g + g + b + b)
CleanedHex(s) ==
    LET m == ShorthandExec(s)
    IN IF m = Null THEN s
       ELSE <<m[1][1], m[1][1], m[1][2], m[1][2], m[1][3], m[1][3]>>

\* /^#?([a-f\d]{2})([a-f\d]{2})([a-f\d]{2})$/i.exec : the three groups, or null.
FullExec(s) ==
    LET b == AfterHash(s)
    IN IF Len(b) = 6 /\ \A i \in 1..6 : HexClass(b[i])
       THEN Some(<<SubSeq(b, 1, 2), SubSeq(b, 3, 4), SubSeq(b, 5, 6)>>)
       ELSE Null

\* The value parseInt(.., 16) gives one character of [a-f\d], either case.
DigitVal(c) ==
    CASE c = "0" -> 0 [] c = "1" -> 1 [] c = "2" -> 2 [] c = "3" -> 3
      [] c = "4" -> 4 [] c = "5" -> 5 [] c = "6" -> 6 [] c = "7" -> 7
      [] c = "8" -> 8 [] c = "9" -> 9
      [] c \in {"a", "A"} -> 10 [] c \in {"b", "B"} -> 11
      [] c \in {"c", "C"} -> 12 [] c \in {"d", "D"} -> 13
      [] c \in {"e", "E"} -> 14 [] c \in {"f", "F"} -> 15

\* parseInt(g, 16) of a two-character group.
ParseInt16(g) == 16 * DigitVal(g[1]) + DigitVal(g[2])

hexToRgb(hex) ==
    LET result == FullExec(CleanedHex(hex))
    IN IF result # Null
       THEN Some([r |-> ParseInt16(result[1][1]),
                  g |-> ParseInt16(result[1][2]),
                  b |-> ParseInt16(result[1][3])])
       ELSE Null

(***************************************************************************)
(* _buildData (Globe.tsx 147-185).                                         *)
(***************************************************************************)
\* One pushed point; rgb stands for the colour closure over the decoded triple.
Point(size, arc, rgb, lat, lng) ==
    [size |-> size, order |-> arc.order, rgb |-> rgb, lat |-> lat, lng |-> lng]

\* A loop body that pushes the start point before looking at rgb.
PushArcUnchecked(points, arc, pointSize) ==
    LET rgb == hexToRgb(arc.color)
        rgb0 == IF rgb # Null THEN rgb[1] ELSE [r |-> 0, g |-> 0, b |-> 0]
        withStart == Append(points, Point(pointSize, arc, rgb0, arc.startLat, arc.startLng))
    IN IF rgb # Null
       THEN Append(withStart, Point(pointSize, arc, rgb0, arc.endLat, arc.endLng))
       ELSE withStart

\* The body of the for loop, lines 153-171.
PushArc(points, arc, pointSize) ==
    LET rgb == hexToRgb(arc.color)
    IN IF rgb # Null
       THEN Append(Append(points,
                Point(pointSize, arc, rgb[1], arc.startLat, arc.startLng)),
                Point(pointSize, arc, rgb[1], arc.endLat, arc.endLng))
       ELSE points

\* for (let i = 0; i < arcs.length; i++), from index i with points so far.
RECURSIVE EmitFrom(_, _, _, _)
EmitFrom(arcs, i, points, pointSize) ==
    IF i > Len(arcs) THEN points
    ELSE EmitFrom(arcs, i + 1, PushArc(points, arcs[i], pointSize), pointSize)

EmitPoints(arcs, pointSize) == EmitFrom(arcs, 1, <<>>, pointSize)

\* The findIndex predicate: ["lat", "lng"].every(k => v2[k] === v[k]).
SameLatLng(v2, v) == v2.lat = v.lat /\ v2.lng = v.lng

\* a.findIndex(pred): the first index whose element satisfies it, 0 for -1.
FindIndex(a, v) ==
    IF \E j \in 1..Len(a) : SameLatLng(a[j], v)
    THEN CHOOSE j \in 1..Len(a) :
            /\ SameLatLng(a[j], v)
            /\ \A k \in 1..(j - 1) : ~SameLatLng(a[k], v)
    ELSE 0

\* A filter that keeps the last point of each (lat, lng) pair.
RECURSIVE KeepLastFrom(_, _)
KeepLastFrom(a, i) ==
    IF i > Len(a) THEN <<>>
    ELSE IF \E j \in (i + 1)..Len(a) : SameLatLng(a[j], a[i])
         THEN KeepLastFrom(a, i + 1)
         ELSE <<a[i]>> \o KeepLastFrom(a, i + 1)

FilterPointsKeepLast(points) == KeepLastFrom(points, 1)

\* points.filter((v, i, a) => a.findIndex(..) === i), from index i.
RECURSIVE FilterFrom(_, _)
FilterFrom(a, i) ==
    IF i > Len(a) THEN <<>>
    ELSE IF FindIndex(a, a[i]) = i
         THEN <<a[i]>> \o FilterFrom(a, i + 1)
         ELSE FilterFrom(a, i + 1)

FilterPoints(points) == FilterFrom(points, 1)

(***************************************************************************)
(* genRandomNumbers (Globe.tsx 461-468) and the ring tick's call of it.    *)
(***************************************************************************)
\* A count that swaps the factors of 4/5.
RingCountSwapped(n) == (n * 5) \div 4

\* Math.floor((data.length * 4) / 5), line 270.
RingCount(n) == (n * 4) \div 5

\* Values of Math.floor(Math.random() * (max - min)) + min, Math.random in [0, 1).
DrawRange(min, max) == IF max > min THEN min..(max - 1) ELSE {min}

\* globeData.filter((d, i) => numbersOfRings.includes(i)), zero-based i.
RECURSIVE FilterByIndexFrom(_, _, _)
FilterByIndexFrom(gd, nums, i) ==
    IF i > Len(gd) THEN <<>>
    ELSE IF (i - 1) \in Range(nums)
         THEN <<gd[i]>> \o FilterByIndexFrom(gd, nums, i + 1)
         ELSE FilterByIndexFrom(gd, nums, i + 1)

FilterByIndex(gd, nums) == FilterByIndexFrom(gd, nums, 1)

(***************************************************************************)
(* The Globe component (Globe.tsx 87-289): props, defaultProps, effects.   *)
(* A render, its commit (ref attachment) and the effects it flushes are    *)
(* one step.  Array and object identity is modelled by what replaces a     *)
(* value: every caller-driven replacement and every setGlobeData call      *)
(* hands over a fresh array or object.  Accessor setters of three-globe    *)
(* that only store constants or functions are not part of the state.       *)
(***************************************************************************)
ConfigKeys == {"pointSize", "globeColor", "emissive", "emissiveIntensity", "shininess"}

\* The defaults of lines 105-117 among the modelled keys (decimals as strings).
Defaults ==
    [pointSize |-> 1, globeColor |-> "#1d072e", emissive |-> "#000000",
     emissiveIntensity |-> "0.1", shininess |-> "0.9"]

\* { ...defaults, ...globeConfig }: an absent key (Null) keeps the default.
DefaultProps(cfg) ==
    [k \in ConfigKeys |-> IF cfg[k] # Null THEN cfg[k][1] ELSE Defaults[k]]

\* The configuration values in the build effect's dependency list, line 127.
Gov(dp) == <<dp.globeColor, dp.emissive, dp.emissiveIntensity, dp.shininess>>

\* _buildMaterial, lines 130-144.
BuildMaterial(dp) ==
    [color |-> dp.globeColor, emissive |-> dp.emissive,
     emissiveIntensity |-> dp.emissiveIntensity, shininess |-> dp.shininess]

\* A guard that forgets data.length.
RingGuardNoLength(ref, gd, d) == ref /\ gd # Null

\* !( !globeRef.current || !globeData || data.length === 0 ), lines 258 and 264.
RingGuard(ref, gd, d) == ref /\ gd # Null /\ Len(d) # 0

\* A cleanup that leaves the interval running.
ClearIntervalNoop(ts, id) == ts

\* clearInterval(interval), line 281.
ClearInterval(ts, id) == {t \in ts : t.id # id}

\* Caller inputs.
EmptyConfig == [k \in ConfigKeys |-> Null]
ConfigPool ==
    { EmptyConfig,
      [EmptyConfig EXCEPT !.pointSize = Some(2)],
      [EmptyConfig EXCEPT !.globeColor = Some("#062056")],
      [EmptyConfig EXCEPT !.pointSize = Some(2), !.shininess = Some("1")] }

Arc(order, sLat, sLng, eLat, eLng, color) ==
    [order |-> order, startLat |-> sLat, startLng |-> sLng,
     endLat |-> eLat, endLng |-> eLng, arcAlt |-> "0.5", color |-> color]

ColorShort == <<"#", "F", "1", "a">>
ColorLong == <<"a", "a", "1", "1", "F", "F">>
ColorBad == <<"g", "a", "F">>
Colors == {ColorShort, ColorLong, ColorBad}
Coords == {<<0, 0>>, <<0, 1>>, <<1, 0>>}

DataPool ==
    { Arc(1, 0, 0, 0, 1, ColorShort),
      Arc(2, 0, 1, 0, 1, ColorLong),
      Arc(3, 1, 0, 0, 0, ColorBad) }

BuildArcPool ==
    { Arc(o, s[1], s[2], e[1], e[2], c) :
        o \in {1, 2}, s \in Coords, e \in Coords, c \in Colors }

ListsOver(S, n) == UNION {[1..k -> S] : k \in 0..n}

\* Arc lists handed to the component: arcs of the pool in ascending order.
DataLists ==
    {l \in ListsOver(DataPool, MaxArcs) :
        \A i \in 1..(Len(l) - 1) : l[i].order < l[i + 1].order}

\* One render of Globe with props d, c, its commit and its effects.
Commit(d, c, mount, dataChg, cfgChg, inputChg) ==
    LET gd == IF pendingGD # Null THEN pendingGD ELSE globeData
        gdChg == pendingGD # Null
        dp == DefaultProps(c)
        refR == globeRefCurrent
        run1 == mount \/ refR # depRef \/ Gov(dp) # depGov \/ dataChg
        run2 == mount \/ gdChg \/ cfgChg
        run3 == mount \/ refR # depRef \/ gdChg \/ dataChg
        ref == TRUE
        ts1 == IF run3 /\ cleanup3 # 0 THEN ClearInterval(timers, cleanup3) ELSE timers
        built == run1 /\ ref
        points == EmitPoints(d, dp.pointSize)
        anim == run2 /\ ref /\ gd # Null
        start == run3 /\ RingGuard(ref, gd, d)
        interval == created + 1
    IN /\ data' = d
       /\ globeConfig' = c
       /\ globeData' = gd
       /\ globeRefCurrent' = ref
       /\ depRef' = refR
       /\ depGov' = Gov(dp)
       /\ phase' = "mounted"
       \* build effect, lines 122-127
       /\ material' = IF built THEN BuildMaterial(dp) ELSE material
       /\ pendingGD' = IF built THEN Some(FilterPoints(points)) ELSE Null
       /\ emitted' = IF built THEN points ELSE emitted
       /\ builds' = (IF inputChg THEN 0 ELSE builds) + (IF built THEN 1 ELSE 0)
       \* static configuration effect and startAnimation, lines 188-252
       /\ arcsLayer' = IF anim THEN d ELSE arcsLayer
       /\ pointsLayer' = IF anim THEN gd[1] ELSE pointsLayer
       /\ ringsLayer' = IF anim THEN <<>> ELSE ringsLayer
       \* ring interval effect, lines 255-283
       /\ timers' = IF start
                     THEN ts1 \cup {[id |-> interval, gd |-> gd, data |-> d]}
                     ELSE ts1
       /\ cleanup3' = IF run3 THEN (IF start THEN interval ELSE 0) ELSE cleanup3
       /\ created' = IF start THEN interval ELSE created
       /\ UNCHANGED <<hexIn, hexOut, pc, tickId, genMin, genMax, genCount, arr,
                      numbersOfRings>>

\* First render: globeRef.current is null while rendering, attached at commit.
Mount ==
    /\ phase = "new"
    /\ Commit(data, globeConfig, TRUE, TRUE, TRUE, TRUE)
    /\ UNCHANGED updates

\* Re-render caused by the queued setGlobeData.
StateRender ==
    /\ phase = "mounted" /\ pc = "idle"
    /\ pendingGD # Null
    /\ Commit(data, globeConfig, FALSE, FALSE, FALSE, FALSE)
    /\ UNCHANGED updates

\* The caller re-renders with a new arc list.
SetData(d) ==
    /\ phase = "mounted" /\ pc = "idle"
    /\ updates < MaxUpdates
    /\ Commit(d, globeConfig, FALSE, TRUE, FALSE, TRUE)
    /\ updates' = updates + 1

\* The caller re-renders with a new configuration object.
SetConfig(c) ==
    /\ phase = "mounted" /\ pc = "idle"
    /\ updates < MaxUpdates
    /\ Commit(data, c, FALSE, FALSE, TRUE,
              Gov(DefaultProps(c)) # Gov(DefaultProps(globeConfig)))
    /\ updates' = updates + 1

\* Unmount: effect cleanups run, the ref is detached, queued state is dropped.
Unmount ==
    /\ phase = "mounted" /\ pc = "idle"
    /\ phase' = "unmounted"
    /\ timers' = IF cleanup3 # 0 THEN ClearInterval(timers, cleanup3) ELSE timers
    /\ cleanup3' = 0
    /\ globeRefCurrent' = FALSE
    /\ pendingGD' = Null
    /\ UNCHANGED <<hexIn, hexOut, data, globeConfig, globeData, depRef, depGov,
                   material, arcsLayer, pointsLayer, ringsLayer, created, pc, tickId,
                   genMin, genMax, genCount, arr, numbersOfRings, emitted, builds,
                   updates>>

\* The interval callback of timer t up to its call of genRandomNumbers, 262-271.
RingTickBegin(t) ==
    /\ pc = "idle"
    /\ t \in timers
    /\ IF RingGuard(globeRefCurrent, t.gd, t.data)
       THEN /\ pc' = "gen"
            /\ tickId' = t.id
            /\ genMin' = 0
            /\ genMax' = Len(t.data)
            /\ genCount' = RingCount(Len(t.data))
            /\ arr' = <<>>
       ELSE UNCHANGED <<pc, tickId, genMin, genMax, genCount, arr>>
    /\ UNCHANGED <<hexIn, hexOut, phase, data, globeConfig, globeRefCurrent,
                   globeData, pendingGD, depRef, depGov, material, arcsLayer,
                   pointsLayer, ringsLayer, timers, cleanup3, created,
                   numbersOfRings, emitted, builds, updates>>

GenUnchanged ==
    UNCHANGED <<hexIn, hexOut, phase, data, globeConfig, globeRefCurrent,
                globeData, pendingGD, depRef, depGov, material, arcsLayer,
                pointsLayer, ringsLayer, timers, cleanup3, created, tickId,
                genMin, genMax, genCount, emitted, builds, updates>>

\* A loop iteration that pushes r without the indexOf test.
GenDrawNoCheck(r) ==
    /\ pc = "gen"
    /\ Len(arr) < genCount
    /\ r \in DrawRange(genMin, genMax)
    /\ arr' = Append(arr, r)
    /\ UNCHANGED <<pc, numbersOfRings>>
    /\ GenUnchanged

\* One iteration of the while loop with Math.random giving r, lines 463-466.
GenDraw(r) ==
    /\ pc = "gen"
    /\ Len(arr) < genCount
    /\ r \in DrawRange(genMin, genMax)
    /\ arr' = IF r \notin Range(arr) THEN Append(arr, r) ELSE arr
    /\ UNCHANGED <<pc, numbersOfRings>>
    /\ GenUnchanged

\* Loop exit and return arr, assigned to numbersOfRings, lines 463, 467, 267.
GenReturn ==
    /\ pc = "gen"
    /\ ~(Len(arr) < genCount)
    /\ numbersOfRings' = arr
    /\ pc' = "filter"
    /\ UNCHANGED arr
    /\ GenUnchanged

\* globeRef.current.ringsData(globeData.filter(..)), lines 274-276.
RingTickEnd ==
    /\ pc = "filter"
    /\ tickId # 0
    /\ \E t \in timers :
         /\ t.id = tickId
         /\ ringsLayer' = FilterByIndex(t.gd[1], numbersOfRings)
    /\ pc' = "idle"
    /\ tickId' = 0
    /\ genMin' = 0 /\ genMax' = 0 /\ genCount' = 0
    /\ arr' = <<>>
    /\ numbersOfRings' = <<>>
    /\ UNCHANGED <<hexIn, hexOut, phase, data, globeConfig, globeRefCurrent,
                   globeData, pendingGD, depRef, depGov, material, arcsLayer,
                   pointsLayer, timers, cleanup3, created, emitted, builds, updates>>

\* The component state before the first render.
InitComponent ==
    /\ globeRefCurrent = FALSE
    /\ globeData = Null
    /\ pendingGD = Null
    /\ depRef = FALSE
    /\ depGov = Gov(Defaults)
    /\ material = BuildMaterial(Defaults)
    /\ arcsLayer = <<>>
    /\ pointsLayer = <<>>
    /\ ringsLayer = <<>>
    /\ timers = {}
    /\ cleanup3 = 0
    /\ created = 0
    /\ tickId = 0
    /\ numbersOfRings = <<>>
    /\ emitted = <<>>
    /\ builds = 0
    /\ updates = 0

InitNoHex == hexIn = <<>> /\ hexOut = <<>>
InitNoGen == pc = "idle" /\ genMin = 0 /\ genMax = 0 /\ genCount = 0 /\ arr = <<>>

Init ==
    /\ phase = "new"
    /\ data \in DataLists
    /\ globeConfig \in ConfigPool
    /\ InitComponent /\ InitNoHex /\ InitNoGen

Next ==
    \/ Mount
    \/ StateRender
    \/ \E d \in DataLists : SetData(d)
    \/ \E c \in ConfigPool : SetConfig(c)
    \/ Unmount
    \/ \E t \in timers : RingTickBegin(t)
    \/ \E r \in DrawRange(genMin, genMax) : GenDraw(r)
    \/ GenReturn
    \/ RingTickEnd

Spec == Init /\ [][Next]_vars

(***************************************************************************)
(* Direct calls of the pure functions, inputs drawn from bounded sets.     *)
(***************************************************************************)
\* hexToRgb(hexIn)
HexCall ==
    /\ phase = "call"
    /\ hexOut = <<>>
    /\ hexOut' = <<hexToRgb(hexIn)>>
    /\ UNCHANGED <<hexIn, phase, data, globeConfig, globeRefCurrent, globeData,
                   pendingGD, depRef, depGov, material, arcsLayer, pointsLayer,
                   ringsLayer, timers, cleanup3, created, pc, tickId, genMin, genMax,
                   genCount, arr, numbersOfRings, emitted, builds, updates>>

InitHex ==
    /\ phase = "call"
    /\ hexIn \in ListsOver(Alphabet, MaxLen)
    /\ hexOut = <<>>
    /\ data = <<>>
    /\ globeConfig = EmptyConfig
    /\ InitComponent /\ InitNoGen

SpecHex == InitHex /\ [][HexCall]_vars

\* _buildData() with the closure's data and defaultProps.pointSize.
BuildCall ==
    /\ phase = "call"
    /\ builds = 0
    /\ LET points == EmitPoints(data, DefaultProps(globeConfig).pointSize)
       IN /\ emitted' = points
          /\ pendingGD' = Some(FilterPoints(points))
    /\ builds' = 1
    /\ UNCHANGED <<hexIn, hexOut, phase, data, globeConfig, globeRefCurrent,
                   globeData, depRef, depGov, material, arcsLayer, pointsLayer,
                   ringsLayer, timers, cleanup3, created, pc, tickId, genMin, genMax,
                   genCount, arr, numbersOfRings, updates>>

InitBuild ==
    /\ phase = "call"
    /\ data \in ListsOver(BuildArcPool, MaxArcs)
    /\ globeConfig \in {EmptyConfig, [EmptyConfig EXCEPT !.pointSize = Some(2)]}
    /\ InitComponent /\ InitNoHex /\ InitNoGen

SpecBuild == InitBuild /\ [][BuildCall]_vars

\* genRandomNumbers(0, n, Math.floor((n * 4) / 5)) as the ring tick calls it.
InitGen ==
    /\ phase = "call"
    /\ data = <<>>
    /\ globeConfig = EmptyConfig
    /\ pc = "gen"
    /\ genMin = 0
    /\ genMax \in 1..MaxN
    /\ genCount = RingCount(genMax)
    /\ arr = <<>>
    /\ InitComponent /\ InitNoHex

NextGen ==
    \/ \E r \in DrawRange(genMin, genMax) : GenDraw(r)
    \/ GenReturn

SpecGen == InitGen /\ [][NextGen]_vars

\* Fair draws: while some value of the range is still missing from arr, a draw
\* that produces a missing value eventually happens; the return is then taken.
InitGenFair == InitGen /\ genMax <= MaxFairN

FairSpecGen ==
    /\ InitGenFair
    /\ [][NextGen]_vars
    /\ WF_vars(NextGen)

(***************************************************************************)
(* Properties.                                                             *)
(***************************************************************************)
SameCoord(p, q) == p.lat = q.lat /\ p.lng = q.lng

\* Position in the emitted list of the first point at p's coordinates (0: none).
FirstEmission(e, p) ==
    IF \E j \in 1..Len(e) : SameCoord(e[j], p)
    THEN CHOOSE j \in 1..Len(e) :
            SameCoord(e[j], p) /\ \A k \in 1..Len(e) : SameCoord(e[k], p) => j <= k
    ELSE 0

\* C1: the built point dataset holds at most one point per (lat, lng) pair; the
\* point kept for a pair is the first one emitted for it (so it carries the first
\* arc's order, size and colour), every emitted pair is kept, and the kept
\* points stand in their emission order.
C1_FirstOccurrenceWins ==
    pendingGD # Null =>
        LET f == pendingGD[1]
            e == emitted
        IN /\ \A i, j \in 1..Len(f) : SameCoord(f[i], f[j]) => i = j
           /\ \A i \in 1..Len(f) :
                 FirstEmission(e, f[i]) # 0 /\ f[i] = e[FirstEmission(e, f[i])]
           /\ \A i, j \in 1..Len(f) :
                 i < j => FirstEmission(e, f[i]) < FirstEmission(e, f[j])
           /\ \A k \in 1..Len(e) : \E i \in 1..Len(f) : SameCoord(f[i], e[k])

\* Two decodable arcs of different order share an endpoint and one point is kept.
C1_Witness ==
    /\ phase = "call" /\ pendingGD # Null
    /\ Len(data) = 2
    /\ data[1].order # data[2].order
    /\ hexToRgb(data[1].color) # Null /\ hexToRgb(data[2].color) # Null
    /\ data[1].endLat = data[2].startLat /\ data[1].endLng = data[2].startLng
    /\ Len(pendingGD[1]) < Len(emitted)
    /\ \E p \in Range(pendingGD[1]) :
         p.lat = data[2].startLat /\ p.lng = data[2].startLng /\ p.order = data[1].order

Decodable(arc) == hexToRgb(arc.color) # Null
\* Number of decodable arcs among the first i arcs.
Rank(arcs, i) == Cardinality({j \in 1..i : Decodable(arcs[j])})

\* C2: an arc whose colour cannot be decoded contributes neither endpoint to the
\* emitted points, and every arc with a decodable colour contributes its start
\* and its end endpoint, in that order, carrying the arc's order; after
\* deduplication both endpoints of every decodable arc are still present.
C2_UndecodableArcSkipped ==
    pendingGD # Null =>
        /\ Len(emitted) = 2 * Rank(data, Len(data))
        /\ \A i \in 1..Len(data) :
             Decodable(data[i]) =>
                LET s == emitted[2 * Rank(data, i) - 1]
                    t == emitted[2 * Rank(data, i)]
                IN /\ s.lat = data[i].startLat /\ s.lng = data[i].startLng
                   /\ t.lat = data[i].endLat /\ t.lng = data[i].endLng
                   /\ s.order = data[i].order /\ t.order = data[i].order
                   /\ \E p \in Range(pendingGD[1]) : SameCoord(p, s)
                   /\ \E p \in Range(pendingGD[1]) : SameCoord(p, t)

\* An undecodable arc precedes a decodable one; only the latter's endpoints appear.
C2_Witness ==
    /\ phase = "call" /\ pendingGD # Null
    /\ Len(data) = 2
    /\ ~Decodable(data[1]) /\ Decodable(data[2])
    /\ data[1].startLat # data[2].startLat /\ data[1].startLat # data[2].endLat
    /\ Len(emitted) = 2
    /\ \A p \in Range(pendingGD[1]) : p.lat # data[1].startLat

LowerDigits == <<"0", "1", "2", "3", "4", "5", "6", "7", "8", "9",
                 "a", "b", "c", "d", "e", "f">>
UpperDigits == <<"0", "1", "2", "3", "4", "5", "6", "7", "8", "9",
                 "A", "B", "C", "D", "E", "F">>
IsHexDigit(c) == \E i \in 1..16 : c = LowerDigits[i] \/ c = UpperDigits[i]
HexValue(c) == (CHOOSE i \in 1..16 : c = LowerDigits[i] \/ c = UpperDigits[i]) - 1
Byte(hi, lo) == 16 * HexValue(hi) + HexValue(lo)
Digits(s) == IF s # <<>> /\ Head(s) = "#" THEN SubSeq(s, 2, Len(s)) ELSE s
AllHex(s) == \A i \in 1..Len(s) : IsHexDigit(s[i])

\* C3: hexToRgb returns the manually parsed byte triple of a string of exactly 6
\* hex digits with an optional leading '#', the triple of the digit-doubled
\* expansion of a string of exactly 3 hex digits with an optional leading '#'
\* (either letter case), and null for every other string.
C3_HexToRgb ==
    hexOut # <<>> =>
        LET d == Digits(hexIn)
        IN hexOut[1] =
             IF Len(d) = 6 /\ AllHex(d)
             THEN Some([r |-> Byte(d[1], d[2]), g |-> Byte(d[3], d[4]),
                        b |-> Byte(d[5], d[6])])
             ELSE IF Len(d) = 3 /\ AllHex(d)
             THEN Some([r |-> Byte(d[1], d[1]), g |-> Byte(d[2], d[2]),
                        b |-> Byte(d[3], d[3])])
             ELSE Null

\* "#F1a" decoded by digit doubling to (255, 17, 170).
C3_Witness ==
    /\ hexIn = <<"#", "F", "1", "a">>
    /\ hexOut = <<Some([r |-> 255, g |-> 17, b |-> 170])>>

C5_RingSetSize ==
    [][(pc = "filter" /\ pc' = "idle" /\ pendingGD = Null) =>
          Len(ringsLayer') = MinOf(RingCount(Len(data)), Len(globeData[1]))]_vars

\* C6: at most one interval timer is live, and only while mounted; the live
\* timer is the one most recently created, the one the effect's cleanup holds,
\* and it closes over the current point dataset and arc list; a running tick
\* belongs to the live timer of a mounted component.
C6_SingleLiveTimer ==
    /\ Cardinality(timers) <= 1
    /\ phase # "mounted" => timers = {}
    /\ \A t \in timers :
         t.id = cleanup3 /\ t.id = created /\ t.gd = globeData /\ t.data = data
    /\ (pc # "idle" /\ tickId # 0) =>
         phase = "mounted" /\ \E t \in timers : t.id = tickId

\* A tick of the second timer is running: the first timer was cancelled.
C6_Witness ==
    /\ phase = "mounted" /\ pc = "filter"
    /\ created >= 2
    /\ Cardinality(timers) = 1

\* C7: once the effects have settled, the builder has run exactly once since
\* the last change of its inputs (mount, arc list, governing configuration).
C7_BuildOncePerChange ==
    (phase = "mounted" /\ pendingGD = Null) => builds = 1

\* C8 as stated: a ring tick takes effect only while mounted with a non-empty
\* point dataset and a non-empty arc list.
C8_TickOnlyWhenNonEmpty ==
    (pc # "idle" /\ tickId # 0) =>
        /\ phase = "mounted"
        /\ globeData # Null
        /\ IF globeData # Null THEN Len(globeData[1]) > 0 ELSE FALSE
        /\ Len(data) > 0

\* C8 amended: a ring tick takes effect only while mounted, with the ref
\* attached, the point dataset built (non-null, possibly empty) and the arc
\* list non-empty.
C8_TickOnlyWhenBuilt ==
    (pc # "idle" /\ tickId # 0) =>
        /\ phase = "mounted"
        /\ globeRefCurrent
        /\ globeData # Null
        /\ Len(data) > 0

\* A tick is about to replace the ring dataset while the point dataset is empty.
C8_Witness ==
    /\ pc = "filter" /\ tickId # 0
    /\ globeData = Some(<<>>)
    /\ Len(data) > 0

\* C9: every selection the ring tick starts has count <= max - min, and under
\* fair draws the reject-and-retry loop ends.
C9_LoopTerminates ==
    /\ [](genCount <= genMax - genMin)
    /\ <>(pc = "filter")

\* A call that had to draw at least two indices has returned.
C9_Witness ==
    /\ phase = "call" /\ pc = "filter"
    /\ genCount >= 2
    /\ Len(numbersOfRings) = genCount
    /\ genCount < genMax - genMin

\* C10: once the effects have settled, every point of the point layer has the
\* pointSize of the current merged configuration and lies on an endpoint of
\* the current arc list.
C10_PointsFollowInputs ==
    (phase = "mounted" /\ pc = "idle" /\ pendingGD = Null) =>
        \A p \in Range(pointsLayer) :
            /\ p.size = DefaultProps(globeConfig).pointSize
            /\ \E a \in Range(data) :
                 \/ (p.lat = a.startLat /\ p.lng = a.startLng)
                 \/ (p.lat = a.endLat /\ p.lng = a.endLng)

\* sub is an order-preserving sub-list of full: its elements occur in full, at
\* strictly increasing positions.
RECURSIVE IsSubList(_, _)
IsSubList(sub, full) ==
    IF sub = <<>> THEN TRUE
    ELSE IF full = <<>> THEN FALSE
    ELSE IF Head(sub) = Head(full) THEN IsSubList(Tail(sub), Tail(full))
    ELSE IsSubList(sub, Tail(full))

\* A render step that runs the static configuration pass: it replaces the point
\* layer's dataset, or applies a queued point dataset, or takes a new
\* configuration object while a point dataset exists.
StaticPassStep ==
    \/ pointsLayer' # pointsLayer
    \/ /\ phase = "mounted" /\ phase' = "mounted" /\ pc = "idle" /\ pc' = "idle"
       /\ pendingGD # Null
       /\ globeData' # globeData \/ pendingGD' # pendingGD \/ updates' # updates
    \/ globeConfig' # globeConfig /\ globeData' # Null

\* C11: in every reachable state the ring layer's dataset is an order-preserving
\* sub-list of the point layer's dataset, and every static configuration pass
\* leaves the ring layer empty.
C11_RingsWithinPoints ==
    /\ [](IsSubList(ringsLayer, pointsLayer))
    /\ [][StaticPassStep => ringsLayer' = <<>>]_vars

\* After a caller-driven replacement a tick has put some, not all, of the
\* rendered points into the ring layer.
C11_Witness ==
    /\ phase = "mounted" /\ pc = "idle"
    /\ updates >= 1
    /\ ringsLayer # <<>>
    /\ Len(ringsLayer) < Len(pointsLayer)

====
